---- MODULE Spec2Model ----
(***************************************************************************)
(* Registration form: the single-page form (InteractiveForm) and the      *)
(* three-step wizard (MultiStepForm) of InteractiveForm.tsx.               *)
(*                                                                         *)
(* A string is a sequence of one-character strings.  Every event handler   *)
(* is one action: the handler's state updates followed by the effects      *)
(* (useEffect) that the re-render runs.                                    *)
(***************************************************************************)
EXTENDS Integers, Sequences, FiniteSets, TLC

VARIABLES
    step,                  \* MultiStepForm: useState(1)
    formData,              \* the component's field values
    errors,                \* the component's error map: field -> message
    touched,               \* InteractiveForm: per-field touched flags
    isSubmitted,           \* the component's success-screen flag
    passwordStrength,      \* the component's stored strength score
    passwordRequirements,  \* MultiStepForm: stored requirement flags
    lastEvent,             \* history: <<handler, field>> of the last event
    pwInput,               \* password functions: the argument
    applied,               \* password functions: which ones have been called
    strictError,           \* result of InteractiveForm's validatePassword
    strictStrength,        \* result of InteractiveForm's calculatePasswordStrength
    strictLabel,           \* getPasswordStrengthLabel of that score
    relaxedError,          \* result of MultiStepForm's validatePassword
    relaxedStrength,       \* passwordStrength set by MultiStepForm's calculatePasswordStrength
    relaxedRequirements,   \* passwordRequirements set by the same call
    relaxedColor,          \* strength bar class of that score
    valInput,              \* field validators: the argument
    valApplied,            \* field validators: which ones have been called
    nameResult,            \* result of validateName
    emailResult,           \* result of validateEmail
    phoneResult            \* result of validatePhone

uiVars == <<step, formData, errors, touched, isSubmitted, passwordStrength,
            passwordRequirements, lastEvent>>
pwVars == <<pwInput, applied, strictError, strictStrength, strictLabel,
            relaxedError, relaxedStrength, relaxedRequirements, relaxedColor>>
valVars == <<valInput, valApplied, nameResult, emailResult, phoneResult>>
vars == <<uiVars, pwVars, valVars>>

----------------------------------------------------------------------------
(* Characters and the regular-expression classes of the source.            *)

UpperCase == {"A","B","C","D","E","F","G","H","I","J","K","L","M",
              "N","O","P","Q","R","S","T","U","V","W","X","Y","Z"}
LowerCase == {"a","b","c","d","e","f","g","h","i","j","k","l","m",
              "n","o","p","q","r","s","t","u","v","w","x","y","z"}
Digits == {"0","1","2","3","4","5","6","7","8","9"}
SpecialChars == {"!","@","#","$","%","^","&","*"}
WhiteSpace == {" ", "\t", "\n"}
PhonePunctuation == {"-", "+", "(", ")"}

\* regex.test(s) for an unanchored one-character class: some character is in it
Contains(s, class) == \E i \in 1..Len(s) : s[i] \in class

\* regex.test(s) for ^[class]+$ : non-empty and every character is in the class
AllIn(s, class) == Len(s) >= 1 /\ \A i \in 1..Len(s) : s[i] \in class

\* String.prototype.trim: drop leading and trailing white space
RECURSIVE TrimLeft(_)
TrimLeft(s) ==
    IF s = <<>> THEN <<>>
    ELSE IF Head(s) \in WhiteSpace THEN TrimLeft(Tail(s)) ELSE s

RECURSIVE TrimRight(_)
TrimRight(s) ==
    IF s = <<>> THEN <<>>
    ELSE IF s[Len(s)] \in WhiteSpace THEN TrimRight(SubSeq(s, 1, Len(s) - 1)) ELSE s

trim(s) == TrimRight(TrimLeft(s))

\* s.replace(/\D/g, "") : the digits of s, in order
IsDigit(c) == c \in Digits
stripNonDigits(s) == SelectSeq(s, IsDigit)

\* /^[^\s@]+@[^\s@]+\.[^\s@]+$/.test(s)
emailRegex(s) ==
    \E at \in 2..Len(s) : \E dot \in (at + 2)..(Len(s) - 1) :
        /\ s[at] = "@"
        /\ s[dot] = "."
        /\ \A i \in (1..Len(s)) \ {at} : s[i] \notin WhiteSpace \cup {"@"}

\* the value of a validator that found nothing wrong
Undefined == "undefined"

----------------------------------------------------------------------------
(* Validators.                                                             *)

\* validateName with the length check on the untrimmed value
validateName_untrimmedLength(name) ==
    IF trim(name) = <<>> THEN "Name is required"
    ELSE IF Len(name) < 2 THEN "Name must be at least 2 characters"
    ELSE IF ~AllIn(name, UpperCase \cup LowerCase \cup WhiteSpace)
         THEN "Name can only contain letters and spaces"
    ELSE Undefined

validateName(name) ==
    IF trim(name) = <<>> THEN "Name is required"
    ELSE IF Len(trim(name)) < 2 THEN "Name must be at least 2 characters"
    ELSE IF ~AllIn(name, UpperCase \cup LowerCase \cup WhiteSpace)
         THEN "Name can only contain letters and spaces"
    ELSE Undefined

\* validateEmail with the pattern tested on the trimmed value
validateEmail_trimmed(email) ==
    IF trim(email) = <<>> THEN "Email is required"
    ELSE IF ~emailRegex(trim(email)) THEN "Please enter a valid email address"
    ELSE Undefined

validateEmail(email) ==
    IF trim(email) = <<>> THEN "Email is required"
    ELSE IF ~emailRegex(email) THEN "Please enter a valid email address"
    ELSE Undefined

\* validatePhone with the digit count checked before the characters
validatePhone_lengthFirst(phone) ==
    IF trim(phone) = <<>> THEN "Phone number is required"
    ELSE IF Len(stripNonDigits(phone)) < 10 THEN "Phone number must be at least 10 digits"
    ELSE IF ~AllIn(phone, Digits \cup WhiteSpace \cup PhonePunctuation)
         THEN "Please enter a valid phone number"
    ELSE Undefined

validatePhone(phone) ==
    IF trim(phone) = <<>> THEN "Phone number is required"
    ELSE IF ~AllIn(phone, Digits \cup WhiteSpace \cup PhonePunctuation)
         THEN "Please enter a valid phone number"
    ELSE IF Len(stripNonDigits(phone)) < 10 THEN "Phone number must be at least 10 digits"
    ELSE Undefined

validateOTP(otp) ==
    IF otp = <<>> THEN "Verification code is required"
    ELSE IF Len(otp) # 5 THEN "Code must be 5 digits"
    ELSE Undefined

\* InteractiveForm.validatePassword with the digit check moved to the front
validatePassword_digitFirst(password) ==
    IF password = <<>> THEN "Password is required"
    ELSE IF Len(password) < 8 THEN "Password must be at least 8 characters"
    ELSE IF ~Contains(password, Digits) THEN "Password must contain a number"
    ELSE IF ~Contains(password, UpperCase) THEN "Password must contain an uppercase letter"
    ELSE IF ~Contains(password, LowerCase) THEN "Password must contain a lowercase letter"
    ELSE IF ~Contains(password, SpecialChars)
         THEN "Password must contain a special character (!@#$%^&*)"
    ELSE Undefined

\* InteractiveForm.validatePassword (strict policy)
InteractiveForm_validatePassword(password) ==
    IF password = <<>> THEN "Password is required"
    ELSE IF Len(password) < 8 THEN "Password must be at least 8 characters"
    ELSE IF ~Contains(password, UpperCase) THEN "Password must contain an uppercase letter"
    ELSE IF ~Contains(password, LowerCase) THEN "Password must contain a lowercase letter"
    ELSE IF ~Contains(password, Digits) THEN "Password must contain a number"
    ELSE IF ~Contains(password, SpecialChars)
         THEN "Password must contain a special character (!@#$%^&*)"
    ELSE Undefined

\* MultiStepForm.validatePassword with the symbol check before the digit check
validatePassword_symbolFirst(password) ==
    IF password = <<>> THEN "Password is required"
    ELSE IF Len(password) < 8 THEN "Password must be at least 8 characters"
    ELSE IF ~Contains(password, SpecialChars) THEN "Password must contain a symbol"
    ELSE IF ~Contains(password, Digits) THEN "Password must contain a number"
    ELSE Undefined

\* MultiStepForm.validatePassword (relaxed policy)
MultiStepForm_validatePassword(password) ==
    IF password = <<>> THEN "Password is required"
    ELSE IF Len(password) < 8 THEN "Password must be at least 8 characters"
    ELSE IF ~Contains(password, Digits) THEN "Password must contain a number"
    ELSE IF ~Contains(password, SpecialChars) THEN "Password must contain a symbol"
    ELSE Undefined

----------------------------------------------------------------------------
(* Password strength.                                                      *)

\* InteractiveForm.calculatePasswordStrength with > 8 for >= 8
calculatePasswordStrength_offByOne(password) ==
    (IF Len(password) > 8 THEN 20 ELSE 0)
    + (IF Len(password) >= 12 THEN 20 ELSE 0)
    + (IF Contains(password, UpperCase) THEN 20 ELSE 0)
    + (IF Contains(password, LowerCase) THEN 20 ELSE 0)
    + (IF Contains(password, Digits) THEN 10 ELSE 0)
    + (IF Contains(password, SpecialChars) THEN 10 ELSE 0)

\* InteractiveForm.calculatePasswordStrength
InteractiveForm_calculatePasswordStrength(password) ==
    (IF Len(password) >= 8 THEN 20 ELSE 0)
    + (IF Len(password) >= 12 THEN 20 ELSE 0)
    + (IF Contains(password, UpperCase) THEN 20 ELSE 0)
    + (IF Contains(password, LowerCase) THEN 20 ELSE 0)
    + (IF Contains(password, Digits) THEN 10 ELSE 0)
    + (IF Contains(password, SpecialChars) THEN 10 ELSE 0)

getPasswordStrengthLabel(strength) ==
    IF strength < 40 THEN "Weak"
    ELSE IF strength < 70 THEN "Medium"
    ELSE "Strong"

\* MultiStepForm.calculatePasswordStrength: the requirement flags it stores
MultiStepForm_requirements(password) ==
    [minLength |-> Len(password) >= 8,
     hasNumber |-> Contains(password, Digits),
     hasSymbol |-> Contains(password, SpecialChars)]

\* the relaxed score with 40 for the digit and 20 for the symbol
MultiStepForm_strength_digit40(requirements) ==
    (IF requirements.minLength THEN 40 ELSE 0)
    + (IF requirements.hasNumber THEN 40 ELSE 0)
    + (IF requirements.hasSymbol THEN 20 ELSE 0)

\* MultiStepForm.calculatePasswordStrength: the score it stores
MultiStepForm_strength(requirements) ==
    (IF requirements.minLength THEN 40 ELSE 0)
    + (IF requirements.hasNumber THEN 30 ELSE 0)
    + (IF requirements.hasSymbol THEN 30 ELSE 0)

\* the strength bar with the single-page form's 70 as the upper threshold
strengthBarColor_at70(strength) ==
    IF strength < 40 THEN "bg-destructive"
    ELSE IF strength < 70 THEN "bg-yellow-500"
    ELSE "bg-success"

\* MultiStepForm: class of the strength bar
strengthBarColor(strength) ==
    IF strength < 40 THEN "bg-destructive"
    ELSE IF strength < 80 THEN "bg-yellow-500"
    ELSE "bg-success"

----------------------------------------------------------------------------
(* Input strings.                                                          *)

MaxCore == 3     \* longest freely chosen part of a generated password
MaxPad == 10     \* longest run of one repeated character appended to it

SeqsUpTo(S, n) == UNION {[1..k -> S] : k \in 0..n}
Pad(c, k) == [i \in 1..k |-> c]

\* one character of each class the password code tells apart, and one of none
PwAlphabet == {"A", "a", "1", "!", "?"}

Passwords ==
    {core \o Pad(c, k) : core \in SeqsUpTo(PwAlphabet, MaxCore),
                         c \in PwAlphabet, k \in 0..MaxPad}

----------------------------------------------------------------------------
(* The password functions, called on one argument.                         *)

valIdle ==
    /\ valInput = <<>>
    /\ valApplied = {}
    /\ nameResult = Undefined
    /\ emailResult = Undefined
    /\ phoneResult = Undefined

uiIdle ==
    /\ step = 1
    /\ formData = <<>>
    /\ errors = <<>>
    /\ touched = <<>>
    /\ isSubmitted = FALSE
    /\ passwordStrength = 0
    /\ passwordRequirements = [minLength |-> FALSE, hasNumber |-> FALSE, hasSymbol |-> FALSE]
    /\ lastEvent = <<"mount", "">>

InitPassword ==
    /\ uiIdle
    /\ valIdle
    /\ pwInput \in Passwords
    /\ applied = {}
    /\ strictError = Undefined
    /\ strictStrength = 0
    /\ strictLabel = ""
    /\ relaxedError = Undefined
    /\ relaxedStrength = 0
    /\ relaxedRequirements = [minLength |-> FALSE, hasNumber |-> FALSE, hasSymbol |-> FALSE]
    /\ relaxedColor = ""

CallStrictValidate ==
    /\ "strictValidate" \notin applied
    /\ strictError' = InteractiveForm_validatePassword(pwInput)
    /\ applied' = applied \cup {"strictValidate"}
    /\ UNCHANGED <<pwInput, strictStrength, strictLabel, relaxedError, relaxedStrength,
                   relaxedRequirements, relaxedColor, uiVars, valVars>>

CallStrictStrength ==
    /\ "strictStrength" \notin applied
    /\ strictStrength' = InteractiveForm_calculatePasswordStrength(pwInput)
    /\ strictLabel' = getPasswordStrengthLabel(strictStrength')
    /\ applied' = applied \cup {"strictStrength"}
    /\ UNCHANGED <<pwInput, strictError, relaxedError, relaxedStrength,
                   relaxedRequirements, relaxedColor, uiVars, valVars>>

CallRelaxedValidate ==
    /\ "relaxedValidate" \notin applied
    /\ relaxedError' = MultiStepForm_validatePassword(pwInput)
    /\ applied' = applied \cup {"relaxedValidate"}
    /\ UNCHANGED <<pwInput, strictError, strictStrength, strictLabel, relaxedStrength,
                   relaxedRequirements, relaxedColor, uiVars, valVars>>

CallRelaxedStrength ==
    /\ "relaxedStrength" \notin applied
    /\ relaxedRequirements' = MultiStepForm_requirements(pwInput)
    /\ relaxedStrength' = MultiStepForm_strength(relaxedRequirements')
    /\ relaxedColor' = strengthBarColor(relaxedStrength')
    /\ applied' = applied \cup {"relaxedStrength"}
    /\ UNCHANGED <<pwInput, strictError, strictStrength, strictLabel, relaxedError, uiVars, valVars>>

NextPassword ==
    \/ CallStrictValidate
    \/ CallStrictStrength
    \/ CallRelaxedValidate
    \/ CallRelaxedStrength

SpecPassword == InitPassword /\ [][NextPassword]_vars

----------------------------------------------------------------------------
(* The field validators, called on one argument.                           *)

MaxEmailLen == 6   \* longest generated email value
MaxNameLen == 5    \* longest generated name value

EmailInputs == SeqsUpTo({"a", "@", ".", " "}, MaxEmailLen)
NameInputs == SeqsUpTo({"J", "o", " ", "1"}, MaxNameLen)
PhoneInputs ==
    {core \o Pad(c, k) : core \in SeqsUpTo({"5", " ", "-", "x"}, MaxCore),
                         c \in {"5", " ", "-", "x"}, k \in 0..MaxPad}

pwIdle ==
    /\ pwInput = <<>>
    /\ applied = {}
    /\ strictError = Undefined
    /\ strictStrength = 0
    /\ strictLabel = ""
    /\ relaxedError = Undefined
    /\ relaxedStrength = 0
    /\ relaxedRequirements = [minLength |-> FALSE, hasNumber |-> FALSE, hasSymbol |-> FALSE]
    /\ relaxedColor = ""

InitValidators ==
    /\ uiIdle
    /\ pwIdle
    /\ valInput \in EmailInputs \cup NameInputs \cup PhoneInputs
    /\ valApplied = {}
    /\ nameResult = Undefined
    /\ emailResult = Undefined
    /\ phoneResult = Undefined

CallValidateName ==
    /\ "name" \notin valApplied
    /\ nameResult' = validateName(valInput)
    /\ valApplied' = valApplied \cup {"name"}
    /\ UNCHANGED <<valInput, emailResult, phoneResult, uiVars, pwVars>>

CallValidateEmail ==
    /\ "email" \notin valApplied
    /\ emailResult' = validateEmail(valInput)
    /\ valApplied' = valApplied \cup {"email"}
    /\ UNCHANGED <<valInput, nameResult, phoneResult, uiVars, pwVars>>

CallValidatePhone ==
    /\ "phone" \notin valApplied
    /\ phoneResult' = validatePhone(valInput)
    /\ valApplied' = valApplied \cup {"phone"}
    /\ UNCHANGED <<valInput, nameResult, emailResult, uiVars, pwVars>>

NextValidators ==
    \/ CallValidateName
    \/ CallValidateEmail
    \/ CallValidatePhone

SpecValidators == InitValidators /\ [][NextValidators]_vars

----------------------------------------------------------------------------
(* MultiStepForm: the three-step wizard.                                   *)

UiMaxCore == 2   \* longest freely chosen part of a password typed into a form
OtpMaxLength == 5

NoErrors == [f \in {} |-> Undefined]
OneError(field, message) == [f \in {field} |-> message]

WizardEmails ==
    { <<>>, <<" ">>, <<"a","b">>, <<"a","@","b">>, <<"a","@","b",".","c">> }

\* InputOTP maxLength={5}: any characters, at most five of them
WizardCodes == {Pad(c, k) : c \in {"1", "a"}, k \in 0..OtpMaxLength}

WizardPasswords ==
    {core \o Pad("a", k) : core \in SeqsUpTo({"1", "!"}, UiMaxCore), k \in {0, 6, 8}}

InitWizard ==
    /\ step = 1
    /\ formData = [email |-> <<>>, otp |-> <<>>, password |-> <<>>]
    /\ errors = NoErrors
    /\ touched = <<>>
    /\ isSubmitted = FALSE
    /\ passwordStrength = 0
    /\ passwordRequirements = [minLength |-> FALSE, hasNumber |-> FALSE, hasSymbol |-> FALSE]
    /\ lastEvent = <<"mount", "">>
    /\ pwIdle
    /\ valIdle

\* useEffect(..., [formData.password]): runs when the password changed, and
\* calls calculatePasswordStrength only for a non-empty password
MultiStepForm_passwordEffect(old, new) ==
    IF new # old /\ new # <<>>
    THEN /\ passwordRequirements' = MultiStepForm_requirements(new)
         /\ passwordStrength' = MultiStepForm_strength(passwordRequirements')
    ELSE UNCHANGED <<passwordRequirements, passwordStrength>>

\* the email onChange that also drops the email error
changeEmail_clearError(value) ==
    /\ ~isSubmitted /\ step = 1
    /\ formData' = [formData EXCEPT !.email = value]
    /\ errors' = [f \in DOMAIN errors \ {"email"} |-> errors[f]]
    /\ lastEvent' = <<"onChange", "email">>
    /\ UNCHANGED <<step, touched, isSubmitted, passwordStrength,
                   passwordRequirements, pwVars, valVars>>

\* email input (step 1): onChange
changeEmail(value) ==
    /\ ~isSubmitted /\ step = 1
    /\ formData' = [formData EXCEPT !.email = value]
    /\ lastEvent' = <<"onChange", "email">>
    /\ UNCHANGED <<step, errors, touched, isSubmitted, passwordStrength,
                   passwordRequirements, pwVars, valVars>>

\* the code input rendered at every step
changeOTP_anyStep(value) ==
    /\ ~isSubmitted
    /\ formData' = [formData EXCEPT !.otp = value]
    /\ lastEvent' = <<"onChange", "otp">>
    /\ UNCHANGED <<step, errors, touched, isSubmitted, passwordStrength,
                   passwordRequirements, pwVars, valVars>>

\* InputOTP (step 2): onChange
changeOTP(value) ==
    /\ ~isSubmitted /\ step = 2
    /\ formData' = [formData EXCEPT !.otp = value]
    /\ lastEvent' = <<"onChange", "otp">>
    /\ UNCHANGED <<step, errors, touched, isSubmitted, passwordStrength,
                   passwordRequirements, pwVars, valVars>>

\* password input (step 3): onChange, then the strength effect
changePassword(value) ==
    /\ ~isSubmitted /\ step = 3
    /\ formData' = [formData EXCEPT !.password = value]
    /\ MultiStepForm_passwordEffect(formData.password, value)
    /\ lastEvent' = <<"onChange", "password">>
    /\ UNCHANGED <<step, errors, touched, isSubmitted, pwVars, valVars>>

\* handleEmailSubmit with setErrors(prev => ({...prev, email})) on failure
handleEmailSubmit_mergeErrors ==
    /\ ~isSubmitted /\ step = 1
    /\ LET emailError == validateEmail(formData.email)
       IN  IF emailError # Undefined
           THEN /\ errors' = [f \in DOMAIN errors \cup {"email"} |->
                                 IF f = "email" THEN emailError ELSE errors[f]]
                /\ UNCHANGED step
           ELSE /\ errors' = NoErrors
                /\ step' = 2
    /\ lastEvent' = <<"handleEmailSubmit", "">>
    /\ UNCHANGED <<formData, touched, isSubmitted, passwordStrength,
                   passwordRequirements, pwVars, valVars>>

handleEmailSubmit ==
    /\ ~isSubmitted /\ step = 1
    /\ LET emailError == validateEmail(formData.email)
       IN  IF emailError # Undefined
           THEN /\ errors' = OneError("email", emailError)
                /\ UNCHANGED step
           ELSE /\ errors' = NoErrors
                /\ step' = 2
    /\ lastEvent' = <<"handleEmailSubmit", "">>
    /\ UNCHANGED <<formData, touched, isSubmitted, passwordStrength,
                   passwordRequirements, pwVars, valVars>>

\* handleOTPSubmit that does not look at the code
handleOTPSubmit_unchecked ==
    /\ ~isSubmitted /\ step = 2
    /\ errors' = NoErrors
    /\ step' = 3
    /\ lastEvent' = <<"handleOTPSubmit", "">>
    /\ UNCHANGED <<formData, touched, isSubmitted, passwordStrength,
                   passwordRequirements, pwVars, valVars>>

handleOTPSubmit ==
    /\ ~isSubmitted /\ step = 2
    /\ LET otpError == validateOTP(formData.otp)
       IN  IF otpError # Undefined
           THEN /\ errors' = OneError("otp", otpError)
                /\ UNCHANGED step
           ELSE /\ errors' = NoErrors
                /\ step' = 3
    /\ lastEvent' = <<"handleOTPSubmit", "">>
    /\ UNCHANGED <<formData, touched, isSubmitted, passwordStrength,
                   passwordRequirements, pwVars, valVars>>

handlePasswordSubmit ==
    /\ ~isSubmitted /\ step = 3
    /\ LET passwordError == MultiStepForm_validatePassword(formData.password)
       IN  IF passwordError # Undefined
           THEN /\ errors' = OneError("password", passwordError)
                /\ UNCHANGED isSubmitted
           ELSE /\ errors' = NoErrors
                /\ isSubmitted' = TRUE
    /\ lastEvent' = <<"handlePasswordSubmit", "">>
    /\ UNCHANGED <<step, formData, touched, passwordStrength,
                   passwordRequirements, pwVars, valVars>>

\* handleBack with the errors left in place
handleBack_keepErrors ==
    /\ ~isSubmitted /\ step > 1
    /\ step' = step - 1
    /\ lastEvent' = <<"handleBack", "">>
    /\ UNCHANGED <<errors, formData, touched, isSubmitted, passwordStrength,
                   passwordRequirements, pwVars, valVars>>

\* handleBack with the back button shown at every step
handleBack_alwaysShown ==
    /\ ~isSubmitted
    /\ errors' = NoErrors
    /\ step' = step - 1
    /\ lastEvent' = <<"handleBack", "">>
    /\ UNCHANGED <<formData, touched, isSubmitted, passwordStrength,
                   passwordRequirements, pwVars, valVars>>

\* the back button is rendered only when step > 1
handleBack ==
    /\ ~isSubmitted /\ step > 1
    /\ errors' = NoErrors
    /\ step' = step - 1
    /\ lastEvent' = <<"handleBack", "">>
    /\ UNCHANGED <<formData, touched, isSubmitted, passwordStrength,
                   passwordRequirements, pwVars, valVars>>

\* "Send to different email" (step 2): setStep(1) and nothing else
sendToDifferentEmail ==
    /\ ~isSubmitted /\ step = 2
    /\ step' = 1
    /\ lastEvent' = <<"sendToDifferentEmail", "">>
    /\ UNCHANGED <<formData, errors, touched, isSubmitted, passwordStrength,
                   passwordRequirements, pwVars, valVars>>

\* "Continue" on the success screen, then the strength effect
MultiStepForm_restart ==
    /\ isSubmitted
    /\ isSubmitted' = FALSE
    /\ step' = 1
    /\ formData' = [email |-> <<>>, otp |-> <<>>, password |-> <<>>]
    /\ errors' = NoErrors
    /\ MultiStepForm_passwordEffect(formData.password, <<>>)
    /\ lastEvent' = <<"restart", "">>
    /\ UNCHANGED <<touched, pwVars, valVars>>

NextWizard ==
    \/ \E value \in WizardEmails : changeEmail(value)
    \/ \E value \in WizardCodes : changeOTP(value)
    \/ \E value \in WizardPasswords : changePassword(value)
    \/ handleEmailSubmit
    \/ handleOTPSubmit
    \/ handlePasswordSubmit
    \/ handleBack
    \/ sendToDifferentEmail
    \/ MultiStepForm_restart

SpecWizard == InitWizard /\ [][NextWizard]_vars

----------------------------------------------------------------------------
(* Properties of the wizard (SpecWizard).                                  *)

\* C2: every forward transition of the wizard moves exactly one step and is
\* gated by the current step's validator: 1 -> 2 only when validateEmail
\* accepts the email, 2 -> 3 only when validateOTP accepts the code (non-empty,
\* length exactly 5), and isSubmitted becomes true only at step 3 when the
\* relaxed validatePassword accepts the password.
C2_ForwardGated ==
    [][ /\ step' > step =>
              /\ step' = step + 1
              /\ \/ step = 1 /\ validateEmail(formData.email) = Undefined
                 \/ /\ step = 2
                    /\ validateOTP(formData.otp) = Undefined
                    /\ formData.otp # <<>>
                    /\ Len(formData.otp) = 5
        /\ (isSubmitted' /\ ~isSubmitted) =>
              /\ step = 3 /\ step' = 3
              /\ MultiStepForm_validatePassword(formData.password) = Undefined
      ]_vars

C2_Witness ==
    /\ isSubmitted
    /\ step = 3
    /\ lastEvent = <<"handlePasswordSubmit", "">>

\* C3: a continue action whose validator reports an error leaves the step,
\* isSubmitted and the field values unchanged and sets the error map to
\* exactly the one entry of the current step's field, whatever it held before.
C3_FailedContinue ==
    [][ /\ (lastEvent' = <<"handleEmailSubmit", "">>
              /\ validateEmail(formData.email) # Undefined) =>
              /\ step' = step /\ step = 1
              /\ isSubmitted' = isSubmitted
              /\ formData' = formData
              /\ DOMAIN errors' = {"email"}
              /\ errors'["email"] = validateEmail(formData.email)
        /\ (lastEvent' = <<"handleOTPSubmit", "">>
              /\ validateOTP(formData.otp) # Undefined) =>
              /\ step' = step /\ step = 2
              /\ isSubmitted' = isSubmitted
              /\ formData' = formData
              /\ DOMAIN errors' = {"otp"}
              /\ errors'["otp"] = validateOTP(formData.otp)
        /\ (lastEvent' = <<"handlePasswordSubmit", "">>
              /\ MultiStepForm_validatePassword(formData.password) # Undefined) =>
              /\ step' = step /\ step = 3
              /\ isSubmitted' = isSubmitted
              /\ formData' = formData
              /\ DOMAIN errors' = {"password"}
              /\ errors'["password"] = MultiStepForm_validatePassword(formData.password)
      ]_vars

\* a failed email continue at step 1 after the code had been entered
C3_Witness ==
    /\ lastEvent = <<"handleEmailSubmit", "">>
    /\ step = 1
    /\ formData.otp # <<>>
    /\ DOMAIN errors = {"email"}
    /\ errors["email"] = "Please enter a valid email address"

\* C4: back navigation from step 2 or 3 decrements the step by exactly one,
\* leaves the error map empty and leaves email, code and password unchanged.
C4_Back ==
    [][ lastEvent' = <<"handleBack", "">> =>
            /\ step \in {2, 3}
            /\ step' = step - 1
            /\ DOMAIN errors' = {}
            /\ formData' = formData
      ]_vars

C4_Witness ==
    /\ lastEvent = <<"handleBack", "">>
    /\ step = 2
    /\ formData.password # <<>>
    /\ formData.otp # <<>>
    /\ DOMAIN errors = {}

\* C5: in every reachable state of the wizard the step is 1, 2 or 3; back is
\* never applied at step 1 and no continue raises the step above 3.
C5_StepRange ==
    /\ step \in {1, 2, 3}
    /\ lastEvent = <<"handleBack", "">> => step \in {1, 2}

C5_Witness ==
    /\ lastEvent = <<"handleBack", "">>
    /\ step = 1
    /\ ~isSubmitted

\* C6: in every reachable state of the wizard the stored strength score and
\* the three stored requirement flags are the values computed from the current
\* password alone, also after the password is emptied and after a restart.
C6_DerivedFromCurrentPassword ==
    /\ passwordRequirements = MultiStepForm_requirements(formData.password)
    /\ passwordStrength =
           MultiStepForm_strength(MultiStepForm_requirements(formData.password))

\* C17: the wizard validates only on continue: an edit of the email, code or
\* password changes only that field's value (and, for the password, the stored
\* strength and requirement flags) and leaves the step, isSubmitted and the
\* error map unchanged, so an error stays until the next continue, back or
\* restart even when the value has become valid.
C17_EditsDoNotValidate ==
    [][ /\ \A f \in {"email", "otp", "password"} :
              lastEvent' = <<"onChange", f>> =>
                  /\ step' = step
                  /\ isSubmitted' = isSubmitted
                  /\ errors' = errors
                  /\ \A g \in {"email", "otp", "password"} \ {f} :
                         formData'[g] = formData[g]
                  /\ f # "password" =>
                         /\ passwordStrength' = passwordStrength
                         /\ passwordRequirements' = passwordRequirements
        /\ errors' # errors =>
              lastEvent'[1] \in {"handleEmailSubmit", "handleOTPSubmit",
                                 "handlePasswordSubmit", "handleBack", "restart"}
      ]_vars

\* the email error is still shown after the email was edited to a valid one
C17_Witness ==
    /\ lastEvent = <<"onChange", "email">>
    /\ step = 1
    /\ DOMAIN errors = {"email"}
    /\ validateEmail(formData.email) = Undefined

\* C18: in every reachable state of the wizard an error in the error map
\* belongs to the field of the current step (email at 1, code at 2, password
\* at 3); no action that changes the step leaves another field's error behind.
C18_ErrorsOfCurrentStep ==
    /\ "email" \in DOMAIN errors => step = 1
    /\ "otp" \in DOMAIN errors => step = 2
    /\ "password" \in DOMAIN errors => step = 3

\* C19: in every reachable state of the wizard, at step 2 or 3 the email
\* passes validateEmail, at step 3 the code passes validateOTP, and when
\* isSubmitted is true the step is 3 and email, code and password all pass;
\* a field's value changes only while its own step is shown, or by a restart.
C19_EarlierStepsStayValid ==
    /\ [](/\ step \in {2, 3} => validateEmail(formData.email) = Undefined
          /\ step = 3 => validateOTP(formData.otp) = Undefined
          /\ isSubmitted =>
                /\ step = 3
                /\ validateEmail(formData.email) = Undefined
                /\ validateOTP(formData.otp) = Undefined
                /\ MultiStepForm_validatePassword(formData.password) = Undefined)
    /\ [][ \/ lastEvent' = <<"restart", "">>
           \/ /\ formData'.email # formData.email => (step = 1 /\ ~isSubmitted)
              /\ formData'.otp # formData.otp => (step = 2 /\ ~isSubmitted)
              /\ formData'.password # formData.password => (step = 3 /\ ~isSubmitted)
         ]_vars

\* back at step 2 after the password had been typed at step 3
C19_Witness ==
    /\ lastEvent = <<"handleBack", "">>
    /\ step = 2
    /\ formData.password # <<>>
    /\ validateEmail(formData.email) = Undefined
    /\ validateOTP(formData.otp) = Undefined

----------------------------------------------------------------------------
(* InteractiveForm: the single-page form.                                  *)

Fields == {"name", "email", "phone", "password"}

FormNames == { <<>>, <<"J">>, <<"J","o">>, <<"J","0">> }
FormEmails == { <<>>, <<"a","@","b">>, <<"a","@","b",".","c">> }
FormPhones == { <<>>, Pad("5", 7), Pad("5", 10), <<"x">> \o Pad("5", 10) }
FormPasswords ==
    { <<>>, Pad("a", 8), <<"A","a","1">> \o Pad("a", 5), <<"A","a","1","!">> \o Pad("a", 4) }

FormValues(field) ==
    CASE field = "name" -> FormNames
      [] field = "email" -> FormEmails
      [] field = "phone" -> FormPhones
      [] field = "password" -> FormPasswords

InitForm ==
    /\ step = 1
    /\ formData = [name |-> <<>>, email |-> <<>>, phone |-> <<>>, password |-> <<>>]
    /\ errors = NoErrors
    /\ touched = [name |-> FALSE, email |-> FALSE, phone |-> FALSE, password |-> FALSE]
    /\ isSubmitted = FALSE
    /\ passwordStrength = 0
    /\ passwordRequirements = [minLength |-> FALSE, hasNumber |-> FALSE, hasSymbol |-> FALSE]
    /\ lastEvent = <<"mount", "">>
    /\ pwIdle
    /\ valIdle

\* the four validator calls of the form, by field
InteractiveForm_validate(data) ==
    [name |-> validateName(data.name),
     email |-> validateEmail(data.email),
     phone |-> validatePhone(data.phone),
     password |-> InteractiveForm_validatePassword(data.password)]

\* the validation effect without the touched guards
realTimeValidation_ignoreTouched(data, t) ==
    LET failing == {f \in Fields : InteractiveForm_validate(data)[f] # Undefined}
    IN  [f \in failing |-> InteractiveForm_validate(data)[f]]

\* useEffect(..., [formData, touched]): the errors of the touched fields
realTimeValidation(data, t) ==
    LET failing == {f \in Fields : t[f] /\ InteractiveForm_validate(data)[f] # Undefined}
    IN  [f \in failing |-> InteractiveForm_validate(data)[f]]

handleInputChange(field, value) ==
    /\ ~isSubmitted
    /\ formData' = [formData EXCEPT ![field] = value]
    /\ errors' = realTimeValidation(formData', touched)
    /\ passwordStrength' = InteractiveForm_calculatePasswordStrength(formData'.password)
    /\ lastEvent' = <<"handleInputChange", field>>
    /\ UNCHANGED <<step, touched, isSubmitted, passwordRequirements, pwVars, valVars>>

handleBlur(field) ==
    /\ ~isSubmitted
    /\ touched' = [touched EXCEPT ![field] = TRUE]
    /\ errors' = realTimeValidation(formData, touched')
    /\ lastEvent' = <<"handleBlur", field>>
    /\ UNCHANGED <<step, formData, isSubmitted, passwordStrength,
                   passwordRequirements, pwVars, valVars>>

\* handleSubmit that leaves the phone out of newErrors
handleSubmit_skipPhone ==
    /\ ~isSubmitted
    /\ touched' = [name |-> TRUE, email |-> TRUE, phone |-> TRUE, password |-> TRUE]
    /\ LET newErrors == InteractiveForm_validate(formData)
           hasErrors == \E f \in Fields \ {"phone"} : newErrors[f] # Undefined
       IN  isSubmitted' = ~hasErrors
    /\ errors' = realTimeValidation(formData, touched')
    /\ lastEvent' = <<"handleSubmit", "">>
    /\ UNCHANGED <<step, formData, passwordStrength, passwordRequirements, pwVars, valVars>>

\* handleSubmit that marks the fields touched only when the submit is rejected
handleSubmit_touchOnFailure ==
    /\ ~isSubmitted
    /\ LET newErrors == InteractiveForm_validate(formData)
           hasErrors == \E f \in Fields : newErrors[f] # Undefined
       IN  /\ isSubmitted' = ~hasErrors
           /\ touched' = IF hasErrors
                         THEN [name |-> TRUE, email |-> TRUE, phone |-> TRUE, password |-> TRUE]
                         ELSE touched
    /\ errors' = realTimeValidation(formData, touched')
    /\ lastEvent' = <<"handleSubmit", "">>
    /\ UNCHANGED <<step, formData, passwordStrength, passwordRequirements, pwVars, valVars>>

\* handleSubmit, then the validation effect of the re-render
handleSubmit ==
    /\ ~isSubmitted
    /\ touched' = [name |-> TRUE, email |-> TRUE, phone |-> TRUE, password |-> TRUE]
    /\ LET newErrors == InteractiveForm_validate(formData)
           hasErrors == \E f \in Fields : newErrors[f] # Undefined
       IN  isSubmitted' = ~hasErrors
    /\ errors' = realTimeValidation(formData, touched')
    /\ lastEvent' = <<"handleSubmit", "">>
    /\ UNCHANGED <<step, formData, passwordStrength, passwordRequirements, pwVars, valVars>>

\* the reset without setTouched
InteractiveForm_reset_keepTouched ==
    /\ isSubmitted
    /\ isSubmitted' = FALSE
    /\ formData' = [name |-> <<>>, email |-> <<>>, phone |-> <<>>, password |-> <<>>]
    /\ errors' = realTimeValidation(formData', touched)
    /\ passwordStrength' = InteractiveForm_calculatePasswordStrength(formData'.password)
    /\ lastEvent' = <<"reset", "">>
    /\ UNCHANGED <<step, touched, passwordRequirements, pwVars, valVars>>

\* "Submit Another Form" on the success screen, then both effects
InteractiveForm_reset ==
    /\ isSubmitted
    /\ isSubmitted' = FALSE
    /\ formData' = [name |-> <<>>, email |-> <<>>, phone |-> <<>>, password |-> <<>>]
    /\ touched' = [name |-> FALSE, email |-> FALSE, phone |-> FALSE, password |-> FALSE]
    /\ errors' = realTimeValidation(formData', touched')
    /\ passwordStrength' = InteractiveForm_calculatePasswordStrength(formData'.password)
    /\ lastEvent' = <<"reset", "">>
    /\ UNCHANGED <<step, passwordRequirements, pwVars, valVars>>

NextForm ==
    \/ \E field \in Fields : \E value \in FormValues(field) : handleInputChange(field, value)
    \/ \E field \in Fields : handleBlur(field)
    \/ handleSubmit
    \/ InteractiveForm_reset

SpecForm == InitForm /\ [][NextForm]_vars

----------------------------------------------------------------------------
(* Properties of the single-page form (SpecForm).                          *)

\* C1: a submit of the single-page form sets isSubmitted exactly when
\* validateName, validateEmail, validatePhone and the strict validatePassword
\* all accept the current values, whichever fields are touched; when one of
\* them reports an error, isSubmitted stays false and the values are unchanged.
C1_SubmitIffAllValid ==
    [][ lastEvent' = <<"handleSubmit", "">> =>
            LET allValid ==
                    /\ validateName(formData.name) = Undefined
                    /\ validateEmail(formData.email) = Undefined
                    /\ validatePhone(formData.phone) = Undefined
                    /\ InteractiveForm_validatePassword(formData.password) = Undefined
            IN  /\ ~isSubmitted
                /\ isSubmitted' <=> allValid
                /\ ~allValid => (~isSubmitted' /\ formData' = formData)
      ]_vars

C1_Witness ==
    /\ lastEvent = <<"handleSubmit", "">>
    /\ isSubmitted
    /\ formData.phone = Pad("5", 10)

\* C14: in the single-page form, once an event and its effects have run, the
\* error map holds an error for a field exactly when the field is touched and
\* its validator rejects the current value, and the error is that validator's
\* result; an untouched field has no error and a touched field that has become
\* valid has none either.
C14_ErrorsOfTouchedFields ==
    LET result(f) ==
            CASE f = "name" -> validateName(formData.name)
              [] f = "email" -> validateEmail(formData.email)
              [] f = "phone" -> validatePhone(formData.phone)
              [] f = "password" -> InteractiveForm_validatePassword(formData.password)
    IN  /\ DOMAIN errors \subseteq Fields
        /\ \A f \in Fields :
              /\ (f \in DOMAIN errors) <=> (touched[f] /\ result(f) # Undefined)
              /\ (f \in DOMAIN errors) => errors[f] = result(f)
              /\ ~touched[f] => f \notin DOMAIN errors

\* a keystroke leaves a touched name in error while the untouched, invalid
\* phone shows none
C14_Witness ==
    /\ lastEvent = <<"handleInputChange", "name">>
    /\ touched.name /\ ~touched.phone
    /\ formData.name = <<"J">>
    /\ DOMAIN errors = {"name"}
    /\ errors["name"] = "Name must be at least 2 characters"
    /\ validatePhone(formData.phone) # Undefined

\* C15: a touched flag starts false, becomes true on a blur of its field (the
\* other flags unchanged) and on every submit (all four, accepted or not), is
\* not changed by keystrokes, and becomes false again only through the reset.
C15_Touched ==
    /\ (\A f \in DOMAIN touched : ~touched[f])
    /\ [][ /\ \A f \in Fields :
                 lastEvent' = <<"handleBlur", f>> =>
                     /\ touched'[f]
                     /\ \A g \in Fields \ {f} : touched'[g] = touched[g]
           /\ lastEvent' = <<"handleSubmit", "">> => \A f \in Fields : touched'[f]
           /\ lastEvent'[1] = "handleInputChange" => touched' = touched
           /\ \A f \in Fields :
                 (touched[f] /\ ~touched'[f]) => lastEvent' = <<"reset", "">>
         ]_vars

\* an accepted submit: all four flags are set on the success screen
C15_Witness ==
    /\ lastEvent = <<"handleSubmit", "">>
    /\ isSubmitted
    /\ \A f \in Fields : touched[f]

----------------------------------------------------------------------------
(* Either component mounted: the page shows the single-page form or the    *)
(* wizard.                                                                  *)

InitEither == InitForm \/ InitWizard

NextEither ==
    \/ DOMAIN touched = Fields /\ NextForm
    \/ DOMAIN touched = {} /\ NextWizard

SpecEither == InitEither /\ [][NextEither]_vars

\* C16: the restart action of the success screen returns the form to its
\* starting point: the wizard gets step 1, empty email, code and password, an
\* empty error map and isSubmitted false; the single-page form gets empty
\* field values, every touched flag false, an empty error map and isSubmitted
\* false.
C16_Restart ==
    /\ lastEvent = <<"restart", "">> =>
          /\ step = 1
          /\ formData = [email |-> <<>>, otp |-> <<>>, password |-> <<>>]
          /\ DOMAIN errors = {}
          /\ isSubmitted = FALSE
    /\ lastEvent = <<"reset", "">> =>
          /\ formData = [name |-> <<>>, email |-> <<>>, phone |-> <<>>, password |-> <<>>]
          /\ \A f \in Fields : touched[f] = FALSE
          /\ DOMAIN errors = {}
          /\ isSubmitted = FALSE

C16_Witness ==
    /\ lastEvent = <<"restart", "">>
    /\ step = 1
    /\ formData.email = <<>> /\ formData.otp = <<>> /\ formData.password = <<>>
    /\ ~isSubmitted

----------------------------------------------------------------------------
(* Properties of the password functions (SpecPassword).                    *)

Chars(s) == {s[i] : i \in DOMAIN s}
Has(s, class) == Chars(s) \cap class # {}
Points(b, n) == IF b THEN n ELSE 0

\* C7: the strict validatePassword reports the first failing check in the
\* order Required, TooShort, MissingUppercase, MissingLowercase, MissingDigit,
\* MissingSymbol, and reports nothing exactly when the password has length
\* >= 8 and an uppercase letter, a lowercase letter, a digit and one of
\* !@#$%^&*; eight lowercase letters yield MissingUppercase.
C7_StrictFirstFailure ==
    "strictValidate" \in applied =>
        LET p == pwInput
            long == Len(p) >= 8
            up == Has(p, UpperCase)
            lo == Has(p, LowerCase)
            dg == Has(p, Digits)
            sy == Has(p, {"!","@","#","$","%","^","&","*"})
        IN  /\ (strictError = "Password is required") <=> (Len(p) = 0)
            /\ (strictError = "Password must be at least 8 characters")
                   <=> (Len(p) > 0 /\ ~long)
            /\ (strictError = "Password must contain an uppercase letter")
                   <=> (long /\ ~up)
            /\ (strictError = "Password must contain a lowercase letter")
                   <=> (long /\ up /\ ~lo)
            /\ (strictError = "Password must contain a number")
                   <=> (long /\ up /\ lo /\ ~dg)
            /\ (strictError = "Password must contain a special character (!@#$%^&*)")
                   <=> (long /\ up /\ lo /\ dg /\ ~sy)
            /\ (strictError = Undefined) <=> (long /\ up /\ lo /\ dg /\ sy)
            /\ (p = <<"a","a","a","a","a","a","a","a">>
                   => strictError = "Password must contain an uppercase letter")

C7_Witness ==
    /\ "strictValidate" \in applied
    /\ pwInput = <<"a","a","a","a","a","a","a","a">>
    /\ strictError = "Password must contain an uppercase letter"

\* C8: the relaxed validatePassword reports the first failing check in the
\* order Required, TooShort, MissingDigit, MissingSymbol, has no letter-case
\* requirement, and reports nothing exactly when the password has length >= 8,
\* a digit and one of !@#$%^&*.
C8_RelaxedFirstFailure ==
    "relaxedValidate" \in applied =>
        LET p == pwInput
            long == Len(p) >= 8
            dg == Has(p, Digits)
            sy == Has(p, {"!","@","#","$","%","^","&","*"})
        IN  /\ (relaxedError = "Password is required") <=> (Len(p) = 0)
            /\ (relaxedError = "Password must be at least 8 characters")
                   <=> (Len(p) > 0 /\ ~long)
            /\ (relaxedError = "Password must contain a number") <=> (long /\ ~dg)
            /\ (relaxedError = "Password must contain a symbol") <=> (long /\ dg /\ ~sy)
            /\ (relaxedError = Undefined) <=> (long /\ dg /\ sy)

\* a password with neither case of letter, accepted by the relaxed policy
C8_Witness ==
    /\ "relaxedValidate" \in applied
    /\ Len(pwInput) >= 8
    /\ ~Has(pwInput, UpperCase \cup LowerCase)
    /\ relaxedError = Undefined

\* C9: the strict score is 20 (length >= 8) + 20 (length >= 12) + 20 (upper)
\* + 20 (lower) + 10 (digit) + 10 (symbol), every sub-check counted; it lies
\* in 0..100 and is labelled Weak below 40, Medium from 40 to 69, Strong from
\* 70; nine characters with all four classes score 80, Strong.
C9_StrictScore ==
    "strictStrength" \in applied =>
        LET p == pwInput
            all4 == /\ Has(p, UpperCase) /\ Has(p, LowerCase)
                    /\ Has(p, Digits) /\ Has(p, {"!","@","#","$","%","^","&","*"})
        IN  /\ strictStrength =
                  Points(Len(p) >= 8, 20) + Points(Len(p) >= 12, 20)
                  + Points(Has(p, UpperCase), 20) + Points(Has(p, LowerCase), 20)
                  + Points(Has(p, Digits), 10)
                  + Points(Has(p, {"!","@","#","$","%","^","&","*"}), 10)
            /\ strictStrength \in 0..100
            /\ (strictLabel = "Weak") <=> (strictStrength < 40)
            /\ (strictLabel = "Medium") <=> (strictStrength >= 40 /\ strictStrength < 70)
            /\ (strictLabel = "Strong") <=> (strictStrength >= 70)
            /\ (Len(p) = 9 /\ all4 => strictStrength = 80 /\ strictLabel = "Strong")

C9_Witness ==
    /\ "strictStrength" \in applied
    /\ Len(pwInput) = 9
    /\ Has(pwInput, UpperCase) /\ Has(pwInput, LowerCase)
    /\ Has(pwInput, Digits) /\ Has(pwInput, SpecialChars)
    /\ strictStrength = 80
    /\ strictLabel = "Strong"

\* C10: the relaxed score is 40 (length >= 8) + 30 (digit) + 30 (symbol), so
\* one of 0, 30, 40, 60, 70, 100; the bar is in the weak band below 40, the
\* medium band from 40 to 79 and the strong band from 80; eight characters
\* with no digit and no symbol score 40, medium.
C10_RelaxedScore ==
    "relaxedStrength" \in applied =>
        LET p == pwInput
            dg == Has(p, Digits)
            sy == Has(p, {"!","@","#","$","%","^","&","*"})
        IN  /\ relaxedStrength =
                  Points(Len(p) >= 8, 40) + Points(dg, 30) + Points(sy, 30)
            /\ relaxedStrength \in {0, 30, 40, 60, 70, 100}
            /\ (relaxedColor = "bg-destructive") <=> (relaxedStrength < 40)
            /\ (relaxedColor = "bg-yellow-500")
                   <=> (relaxedStrength >= 40 /\ relaxedStrength < 80)
            /\ (relaxedColor = "bg-success") <=> (relaxedStrength >= 80)
            /\ (Len(p) = 8 /\ ~dg /\ ~sy
                   => relaxedStrength = 40 /\ relaxedColor = "bg-yellow-500")

C10_Witness ==
    /\ "relaxedStrength" \in applied
    /\ Len(pwInput) = 8
    /\ ~Has(pwInput, Digits) /\ ~Has(pwInput, SpecialChars)
    /\ relaxedStrength = 40
    /\ relaxedColor = "bg-yellow-500"

----------------------------------------------------------------------------
(* Properties of the field validators (SpecValidators).                    *)

Blank(v) == \A i \in DOMAIN v : v[i] \in WhiteSpace
Inked(v) == {i \in DOMAIN v : v[i] \notin WhiteSpace}
TrimmedLen(v) ==
    IF Inked(v) = {} THEN 0
    ELSE (CHOOSE i \in Inked(v) : \A j \in Inked(v) : j <= i)
         - (CHOOSE i \in Inked(v) : \A j \in Inked(v) : j >= i) + 1

\* C11: validateEmail reports Required when the value is empty after
\* trimming; otherwise it accepts exactly the untrimmed values with no white
\* space, exactly one '@', a non-empty local part and, after the '@', a '.'
\* with at least one character on each side; every other value, a valid
\* address with leading or trailing white space included, is InvalidFormat.
C11_EmailShape ==
    "email" \in valApplied =>
        LET v == valInput
            ats == {i \in DOMAIN v : v[i] = "@"}
            shaped ==
                /\ Inked(v) = DOMAIN v
                /\ Cardinality(ats) = 1
                /\ \A a \in ats :
                      /\ a > 1
                      /\ \E d \in DOMAIN v : v[d] = "." /\ d > a + 1 /\ d < Len(v)
        IN  /\ emailResult =
                  IF Blank(v) THEN "Email is required"
                  ELSE IF shaped THEN Undefined
                  ELSE "Please enter a valid email address"
            /\ (v = <<" ","a","@","a",".","a">>
                   => emailResult = "Please enter a valid email address")
            /\ (v = <<"a","@","a",".","a">> => emailResult = Undefined)

C11_Witness ==
    /\ "email" \in valApplied
    /\ valInput = <<"a","@","a",".","a"," ">>
    /\ emailResult = "Please enter a valid email address"

\* C12: validatePhone reports the first failure in the order Required (empty
\* after trimming), InvalidCharacters (a character other than digits, white
\* space, + - ( )), TooShort (fewer than 10 digits): a forbidden character
\* gives InvalidCharacters whatever the digit count, allowed characters with
\* fewer than 10 digits give TooShort, with 10 or more the value is valid.
C12_PhoneOrder ==
    "phone" \in valApplied =>
        LET v == valInput
            forbidden == \E i \in DOMAIN v :
                             v[i] \notin Digits \cup WhiteSpace \cup {"+", "-", "(", ")"}
            digitCount == Cardinality({i \in DOMAIN v : v[i] \in Digits})
        IN  phoneResult =
                IF Blank(v) THEN "Phone number is required"
                ELSE IF forbidden THEN "Please enter a valid phone number"
                ELSE IF digitCount < 10 THEN "Phone number must be at least 10 digits"
                ELSE Undefined

\* a forbidden character in front of ten digits
C12_Witness ==
    /\ "phone" \in valApplied
    /\ valInput = <<"x","5","5","5","5","5","5","5","5","5","5">>
    /\ phoneResult = "Please enter a valid phone number"

\* C13: validateName reports the first failure in the order Required (empty
\* after trimming), TooShort (trimmed length < 2), InvalidCharacters (anything
\* other than letters and white space); one letter surrounded by spaces is
\* TooShort, two letters with a space between them are valid.
C13_NameOrder ==
    "name" \in valApplied =>
        LET v == valInput
            foreign == \E i \in DOMAIN v :
                           v[i] \notin UpperCase \cup LowerCase \cup WhiteSpace
        IN  /\ nameResult =
                  IF Blank(v) THEN "Name is required"
                  ELSE IF TrimmedLen(v) < 2 THEN "Name must be at least 2 characters"
                  ELSE IF foreign THEN "Name can only contain letters and spaces"
                  ELSE Undefined
            /\ (v = <<" ","J"," ">> => nameResult = "Name must be at least 2 characters")
            /\ (v = <<"J"," ","o">> => nameResult = Undefined)

C13_Witness ==
    /\ "name" \in valApplied
    /\ valInput = <<" ","J"," ">>
    /\ nameResult = "Name must be at least 2 characters"

\* C20: under each policy a password that validatePassword accepts is in the
\* strong band of the same policy's score: a strict-valid password scores at
\* least 80 (Strong from 70), a relaxed-valid password scores exactly 100
\* (strong from 80); under the relaxed policy the converse holds too, the bar
\* is in the strong band exactly when validatePassword accepts the password.
C20_ValidIsStrong ==
    /\ {"strictValidate", "strictStrength"} \subseteq applied =>
          (strictError = Undefined =>
               /\ strictStrength >= 80
               /\ strictLabel = "Strong")
    /\ {"relaxedValidate", "relaxedStrength"} \subseteq applied =>
          /\ relaxedError = Undefined => relaxedStrength = 100
          /\ (relaxedColor = "bg-success") <=> (relaxedError = Undefined)
          /\ (relaxedStrength >= 80) <=> (relaxedError = Undefined)

\* a password both policies accept, scored 80 by the strict and 100 by the
\* relaxed policy
C20_Witness ==
    /\ applied = {"strictValidate", "strictStrength", "relaxedValidate", "relaxedStrength"}
    /\ strictError = Undefined
    /\ strictStrength = 80
    /\ strictLabel = "Strong"
    /\ relaxedError = Undefined
    /\ relaxedStrength = 100
    /\ relaxedColor = "bg-success"

====
